---- MODULE Spec2Model ----
(***************************************************************************)
(* NiftyMIC: the first-estimate orchestrator (FirstEstimateOfHRVolume.py)   *)
(* and the reconstruction orchestrator (VolumeReconstruction.py).           *)
(*                                                                          *)
(* Numbers that are floats in the source are kept in tenths (0.6 is 6, 1 is *)
(* 10, 0.1 is 1), so that the defaults stay distinct integers. Iteration    *)
(* counts and the cut-off distance are kept as they are.                    *)
(***************************************************************************)
EXTENDS Integers, Sequences, FiniteSets, TLC

VARIABLES
    vr,         \* VolumeReconstruction: its configuration attributes
    vrSRR,      \* the InverseProblemSolver held by VolumeReconstruction
    vrSDA,      \* the ScatteredDataApproximation held by VolumeReconstruction
    fe,         \* FirstEstimateOfHRVolume: its flags and configuration attributes
    feSDA,      \* the ScatteredDataApproximation held by FirstEstimateOfHRVolume
    err,        \* the message of the ValueError the last call raised, or "none"
    stacks,     \* stack_manager.get_stacks(): per stack its image and its mask
    sliceT,     \* per stack and slice, the slice's affine transform
    inplane,    \* the in-plane collaborator's resampled stacks, "none" before its first run
    heap,       \* the Stack objects built as HR volume, by object identity
    hrRef,      \* FirstEstimateOfHRVolume._HR_volume: the object it refers to
    sdaVol,     \* the HR volume object feSDA was constructed with
    rigid,      \* FirstEstimateOfHRVolume._rigid_registrations
    pc,         \* where compute_first_estimate_of_HR_volume stands
    idx,        \* the loop index i of the registration loop
    registered, \* history: the stacks whose transform the current round has stored
    round,      \* history: the alignment round of the current call
    used,       \* history: the stack list each step of the current call read
    written,    \* history: the HR volume object the last strategy run overwrote
    resampled,  \* the resampled image and mask of every stack, as _run_averaging sums them
    averaged,   \* what _run_averaging makes of them
    geometry,   \* the target stack's image geometry: spacing, size, origin, direction
    grid        \* the geometry of the HR volume's image and mask built from it

cfgVars  == <<vr, vrSRR, vrSDA, fe, feSDA, err>>
pipeVars == <<stacks, sliceT, inplane, heap, hrRef, sdaVol, rigid, pc, idx,
              registered, round, used, written>>
avgVars  == <<resampled, averaged>>
gridVars == <<geometry, grid>>
vars     == <<cfgVars, pipeVars, avgVars, gridVars>>

(***************************************************************************)
(* Values a caller may pass to the setters.                                 *)
(***************************************************************************)
ReconNames    == {"SRR", "SDA", "Average", "Median"}
SRRApproaches == {"TK0", "TK1", "TK2"}
DTDTypes      == {"Laplace", "FiniteDifference", "Stencil"}
SDAApproaches == {"Shepard-YVV", "Shepard-Deriche", "Shepard"}
SigmaValues   == {0, 6, 10}       \* 0, 0.6, 1.0
AlphaValues   == {-1, 1, 2}       \* -0.1, 0.1, 0.2
IterValues    == {0, 20}
AlphaCutValues == {3, 4}

(***************************************************************************)
(* VolumeReconstruction.__init__                                            *)
(***************************************************************************)
VRDefaultAlphaCut == 3
VRDefaultAlpha    == 1
VRDefaultIterMax  == 20
VRDefaultSigma    == 10
FEDefaultSigma    == 6

VRInit ==
    /\ vr = [ recon_approach    |-> "SRR",
              SRR_alpha_cut     |-> VRDefaultAlphaCut,
              SRR_alpha         |-> VRDefaultAlpha,
              SRR_iter_max      |-> VRDefaultIterMax,
              SRR_approach      |-> "TK0",
              SRR_DTD_comp_type |-> "Laplace",
              SDA_sigma         |-> VRDefaultSigma,
              SDA_type          |-> "Shepard-YVV",
              SDA_approach      |-> "unset" ]
    /\ vrSRR = [ alpha_cut            |-> VRDefaultAlphaCut,
                 alpha                |-> VRDefaultAlpha,
                 iter_max             |-> VRDefaultIterMax,
                 regularization_type  |-> "TK0",
                 DTD_computation_type |-> "Laplace" ]
    /\ vrSDA = [ sigma |-> VRDefaultSigma, approach |-> "Shepard-YVV" ]

(***************************************************************************)
(* VolumeReconstruction: the setters.  A setter that raises leaves through  *)
(* the raise statement; what it assigned before the raise stays assigned.   *)
(***************************************************************************)
\* the switch also puts the SDA parameters back to the constructor's defaults
VR_set_reconstruction_approach_Resetting(a) ==
    IF a \notin {"SRR", "SDA"}
    THEN /\ err' = "Error: regularization type can only be either 'SRR' or 'SDA'"
         /\ UNCHANGED <<vr, vrSRR, vrSDA, fe, feSDA, pipeVars, avgVars, gridVars>>
    ELSE /\ vr' = [vr EXCEPT !.recon_approach = a, !.SDA_sigma = VRDefaultSigma]
         /\ vrSDA' = [vrSDA EXCEPT !.sigma = VRDefaultSigma]
         /\ err' = "none"
         /\ UNCHANGED <<vrSRR, fe, feSDA, pipeVars, avgVars, gridVars>>

VR_set_reconstruction_approach(a) ==
    IF a \notin {"SRR", "SDA"}
    THEN /\ err' = "Error: regularization type can only be either 'SRR' or 'SDA'"
         /\ UNCHANGED <<vr, vrSRR, vrSDA, fe, feSDA, pipeVars, avgVars, gridVars>>
    ELSE /\ vr' = [vr EXCEPT !.recon_approach = a]
         /\ err' = "none"
         /\ UNCHANGED <<vrSRR, vrSDA, fe, feSDA, pipeVars, avgVars, gridVars>>

VR_set_SRR_alpha_cut(x) ==
    /\ vr' = [vr EXCEPT !.SRR_alpha_cut = x]
    /\ vrSRR' = [vrSRR EXCEPT !.alpha_cut = x]
    /\ err' = "none"
    /\ UNCHANGED <<vrSDA, fe, feSDA, pipeVars, avgVars, gridVars>>

VR_set_SRR_alpha(x) ==
    /\ vr' = [vr EXCEPT !.SRR_alpha = x]
    /\ vrSRR' = [vrSRR EXCEPT !.alpha = x]
    /\ err' = "none"
    /\ UNCHANGED <<vrSDA, fe, feSDA, pipeVars, avgVars, gridVars>>

VR_set_SRR_iter_max(x) ==
    /\ vr' = [vr EXCEPT !.SRR_iter_max = x]
    /\ vrSRR' = [vrSRR EXCEPT !.iter_max = x]
    /\ err' = "none"
    /\ UNCHANGED <<vrSDA, fe, feSDA, pipeVars, avgVars, gridVars>>

\* The assignment made before the check instead of after it.
VR_set_SRR_approach_AssignFirst(a) ==
    /\ vr' = [vr EXCEPT !.SRR_approach = a]
    /\ vrSRR' = [vrSRR EXCEPT !.regularization_type = a]
    /\ err' = IF a \notin {"TK0", "TK1"} THEN "Error: SRR approach can only be either 'TK0' or 'TK1'" ELSE "none"
    /\ UNCHANGED <<vrSDA, fe, feSDA, pipeVars, avgVars, gridVars>>

VR_set_SRR_approach(a) ==
    IF a \notin {"TK0", "TK1"}
    THEN /\ err' = "Error: SRR approach can only be either 'TK0' or 'TK1'"
         /\ UNCHANGED <<vr, vrSRR, vrSDA, fe, feSDA, pipeVars, avgVars, gridVars>>
    ELSE /\ vr' = [vr EXCEPT !.SRR_approach = a]
         /\ vrSRR' = [vrSRR EXCEPT !.regularization_type = a]
         /\ err' = "none"
         /\ UNCHANGED <<vrSDA, fe, feSDA, pipeVars, avgVars, gridVars>>

VR_set_SRR_DTD_computation_type(a) ==
    IF a \notin {"Laplace", "FiniteDifference"}
    THEN /\ err' = "Error: D'D computation type can only be either 'Laplace' or 'FiniteDifference'"
         /\ UNCHANGED <<vr, vrSRR, vrSDA, fe, feSDA, pipeVars, avgVars, gridVars>>
    ELSE /\ vr' = [vr EXCEPT !.SRR_DTD_comp_type = a]
         /\ vrSRR' = [vrSRR EXCEPT !.DTD_computation_type = a]
         /\ err' = "none"
         /\ UNCHANGED <<vrSDA, fe, feSDA, pipeVars, avgVars, gridVars>>

VR_set_SDA_sigma(x) ==
    /\ vr' = [vr EXCEPT !.SDA_sigma = x]
    /\ vrSDA' = [vrSDA EXCEPT !.sigma = x]
    /\ err' = "none"
    /\ UNCHANGED <<vrSRR, fe, feSDA, pipeVars, avgVars, gridVars>>

\* set_SDA_approach stores into the attribute _SDA_approach; _SDA_type, which the
\* constructor set, is not written.
VR_set_SDA_approach(a) ==
    IF a \notin {"Shepard-YVV", "Shepard-Deriche"}
    THEN /\ err' = "Error: SDA approach can only be either 'Shepard-YVV' or 'Shepard-Deriche'"
         /\ UNCHANGED <<vr, vrSRR, vrSDA, fe, feSDA, pipeVars, avgVars, gridVars>>
    ELSE /\ vr' = [vr EXCEPT !.SDA_approach = a]
         /\ vrSDA' = [vrSDA EXCEPT !.approach = a]
         /\ err' = "none"
         /\ UNCHANGED <<vrSRR, fe, feSDA, pipeVars, avgVars, gridVars>>

(***************************************************************************)
(* Bounds of the model.                                                     *)
(***************************************************************************)
NStacks  == 2      \* stacks held by the stack manager
MaxVal   == 2      \* image intensities are 0..MaxVal
MaxRounds == 2     \* the history counts the alignment rounds up to MaxRounds

StackIds == 0 .. (NStacks - 1)
Vox      == {0, 1}             \* voxels along the slice-select axis; one slice per voxel
Val      == 0 .. MaxVal
target_stack_number == 0

(***************************************************************************)
(* Images.  A stack is isotropic here and shares the HR volume's grid, so   *)
(* that a voxel of the grid maps onto a voxel of the stack and linear and   *)
(* nearest-neighbour interpolation both return the sample found there.      *)
(* Intensities of the HR volume are floats: a fraction <<n, d>> in lowest   *)
(* terms, d > 0.                                                            *)
(***************************************************************************)
Abs(x) == IF x < 0 THEN -x ELSE x

RECURSIVE GCD(_, _)
GCD(a, b) == IF b = 0 THEN a ELSE GCD(b, a % b)

Frac(n, d) == LET g == GCD(Abs(n), d) IN <<n \div g, d \div g>>
Zero == <<0, 1>>

(***************************************************************************)
(* Rigid transforms along the axis: x |-> s*x + t with s in {1, -1}.        *)
(***************************************************************************)
Identity == <<1, 0>>
Apply(T, x) == T[1] * x + T[2]

\* sitkh.get_composited_sitk_affine_transform(outer, inner): outer after inner
get_composited_sitk_affine_transform(outer, inner) ==
    <<outer[1] * inner[1], outer[1] * inner[2] + outer[2]>>

\* what _get_rigid_registration_transform_3D_sitk may return: the stack lies as the
\* HR volume does, or turned end over end about the centre of the grid
Flip == <<-1, 1>>
RegOutcomes == {Identity, Flip}

\* sitk.Resample(image, grid, T, interpolator, default_pixel_value): the grid's voxel
\* v takes the image's sample at T(v), and default_pixel_value outside the image
default_pixel_value == 0
Resample(image, T) ==
    [v \in Vox |-> IF Apply(T, v) \in Vox THEN image[Apply(T, v)] ELSE default_pixel_value]

(***************************************************************************)
(* _get_isotropically_resampled_stack: image and mask resampled with the    *)
(* identity transform; nothing is masked.                                   *)
(***************************************************************************)
get_isotropically_resampled_stack(target_stack) ==
    [ img  |-> [v \in Vox |-> Frac(Resample(target_stack.img, Identity)[v], 1)],
      mask |-> Resample(target_stack.mask, Identity),
      by   |-> "grid" ]

(***************************************************************************)
(* _get_isotropically_resampled_stack, the grid: lines 159 to 164 compute   *)
(* size and spacing, lines 169 to 189 resample image and mask onto them.    *)
(* A spacing is kept in halves of a millimetre, which a float holds         *)
(* exactly; on the values used here the float quotient of line 163 rounds   *)
(* as the exact one does.                                                   *)
(***************************************************************************)
MaxSpacing == 4    \* spacings are 1..MaxSpacing halves of a millimetre
MaxSize    == 3    \* sizes are 1..MaxSize voxels

\* the quotient cut off instead of rounded, as the assignment to the integer array does
Truncated(n, d) == n \div d

\* np.round(n/d), n >= 0 and d > 0: to the nearest integer, a half to the even one
np_round(n, d) ==
    LET q == n \div d
        r == n % d
    IN  IF 2 * r < d THEN q
        ELSE IF 2 * r > d THEN q + 1
        ELSE IF q % 2 = 0 THEN q ELSE q + 1

IsotropicGrid(g) ==
    LET size    == <<g.size[1], g.size[2], np_round(g.spacing[3] * g.size[3], g.spacing[1])>>
        spacing == <<g.spacing[1], g.spacing[2], g.spacing[1]>>
    IN  [ image |-> [ size |-> size, spacing |-> spacing,
                      origin |-> g.origin, direction |-> g.direction ],
          mask  |-> [ size |-> size, spacing |-> spacing,
                      origin |-> g.origin, direction |-> g.direction ] ]

\* the geometry of the stacks of the pipeline: isotropic, one column of voxels
UnitGeometry ==
    [ spacing |-> <<2, 2, 2>>, size |-> <<1, 1, Cardinality(Vox)>>,
      origin |-> "o1", direction |-> "d1",
      mask_origin |-> "o1", mask_direction |-> "d1" ]

(***************************************************************************)
(* _run_averaging, lines 362 to 413: from the resampled image and mask of   *)
(* every stack (res[i].img, res[i].mask) to the averaged image and the      *)
(* joint mask.                                                              *)
(***************************************************************************)
RECURSIVE SumTo(_, _)
SumTo(f, n) == IF n = 0 THEN 0 ELSE f[n - 1] + SumTo(f, n - 1)

\* array and array_mask after the loop: the sums over the stacks
SumIntensity(res, v) == SumTo([i \in StackIds |-> res[i].img[v]], NStacks)
SumMask(res, v)      == SumTo([i \in StackIds |-> res[i].mask[v]], NStacks)

\* ind after the loop: the stacks whose resampled intensity is non-zero at v
ContributionCount(res, v) == Cardinality({i \in StackIds : res[i].img[v] # 0})

\* the plain mean: the sum divided by the number of stacks
DivisorAllStacks(res, v) == NStacks

\* ind[ind==0] = 1
Divisor(res, v) == IF ContributionCount(res, v) = 0 THEN 1 ELSE ContributionCount(res, v)

\* the intersection of the masks instead of their union
JointMaskIntersection(res, v) ==
    IF \A i \in StackIds : res[i].mask[v] # 0 THEN 1 ELSE 0

\* array_mask[array_mask>0] = 1
JointMask(res, v) == IF SumMask(res, v) > 0 THEN 1 ELSE SumMask(res, v)

\* the average left as it is outside the joint mask
AveragedIntensityUnmasked(res, v) ==
    Frac(SumIntensity(res, v), Divisor(res, v))

\* array = np.divide(array, ind); array[array_mask==0] = 0
AveragedIntensity(res, v) ==
    IF JointMask(res, v) = 0 THEN Zero
    ELSE Frac(SumIntensity(res, v), Divisor(res, v))

Averaging(res) ==
    [ img  |-> [v \in Vox |-> AveragedIntensity(res, v)],
      mask |-> [v \in Vox |-> JointMask(res, v)] ]

(***************************************************************************)
(* FirstEstimateOfHRVolume.__init__                                         *)
(***************************************************************************)
\* the slices of a stack lie one voxel apart along the axis
InitialSliceTransforms == [i \in StackIds |-> [j \in Vox |-> <<1, j>>]]

FEInit ==
    /\ fe = [ recon_approach |-> "SDA",
              SDA_sigma      |-> FEDefaultSigma,
              SDA_type       |-> "Shepard-YVV",
              SDA_approach   |-> "unset",
              flag_use_in_plane_rigid_registration |-> FALSE,
              flag_register_stacks                 |-> FALSE ]
    /\ feSDA = [ sigma |-> FEDefaultSigma, approach |-> "Shepard-YVV" ]
    /\ sliceT = InitialSliceTransforms
    /\ inplane = << >>
    /\ heap = (0 :> get_isotropically_resampled_stack(stacks[target_stack_number]))
    /\ hrRef = 0
    /\ sdaVol = 0
    /\ rigid = [i \in StackIds |-> Identity]
    /\ pc = "idle"
    /\ idx = 0
    /\ registered = {}
    /\ round = [ done |-> FALSE, before |-> InitialSliceTransforms, nonIdentity |-> FALSE,
                 n |-> 0 ]
    /\ used = [ in_plane |-> FALSE, grid |-> "original", register |-> "none",
                strategy |-> "none" ]
    /\ written = -1

(***************************************************************************)
(* FirstEstimateOfHRVolume: flags and setters.  The caller is one thread:   *)
(* it calls a setter only between two calls of                              *)
(* compute_first_estimate_of_HR_volume.                                     *)
(***************************************************************************)
use_in_plane_registration_for_initial_volume_estimate(flag) ==
    /\ pc = "idle"
    /\ fe' = [fe EXCEPT !.flag_use_in_plane_rigid_registration = flag]
    /\ err' = "none"
    /\ UNCHANGED <<vr, vrSRR, vrSDA, feSDA, pipeVars, avgVars, gridVars>>

register_stacks_before_initial_volume_estimate(flag) ==
    /\ pc = "idle"
    /\ fe' = [fe EXCEPT !.flag_register_stacks = flag]
    /\ err' = "none"
    /\ UNCHANGED <<vr, vrSRR, vrSDA, feSDA, pipeVars, avgVars, gridVars>>

FE_set_reconstruction_approach(a) ==
    /\ pc = "idle"
    /\ IF a \notin {"SDA", "Average"}
       THEN /\ err' = "Error: regularization type can only be either 'SDA' or 'Average'"
            /\ UNCHANGED <<vr, vrSRR, vrSDA, fe, feSDA, pipeVars, avgVars, gridVars>>
       ELSE /\ fe' = [fe EXCEPT !.recon_approach = a]
            /\ err' = "none"
            /\ UNCHANGED <<vr, vrSRR, vrSDA, feSDA, pipeVars, avgVars, gridVars>>

FE_set_SDA_sigma(x) ==
    /\ pc = "idle"
    /\ fe' = [fe EXCEPT !.SDA_sigma = x]
    /\ feSDA' = [feSDA EXCEPT !.sigma = x]
    /\ err' = "none"
    /\ UNCHANGED <<vr, vrSRR, vrSDA, pipeVars, avgVars, gridVars>>

FE_set_SDA_approach(a) ==
    /\ pc = "idle"
    /\ IF a \notin {"Shepard-YVV", "Shepard-Deriche"}
       THEN /\ err' = "Error: SDA approach can only be either 'Shepard-YVV' or 'Shepard-Deriche'"
            /\ UNCHANGED <<vr, vrSRR, vrSDA, fe, feSDA, pipeVars, avgVars, gridVars>>
       ELSE /\ fe' = [fe EXCEPT !.SDA_approach = a]
            /\ feSDA' = [feSDA EXCEPT !.approach = a]
            /\ err' = "none"
            /\ UNCHANGED <<vr, vrSRR, vrSDA, pipeVars, avgVars, gridVars>>

(***************************************************************************)
(* The stacks a behaviour starts with, and what the in-plane collaborator   *)
(* may return for them.                                                     *)
(***************************************************************************)
StackImages == { [v \in Vox |-> v + 1] }
StackMasks  == { [v \in Vox |-> 1], [v \in Vox |-> IF v = 0 THEN 1 ELSE 0] }
StackFamily == [ img : StackImages, mask : StackMasks ]

\* a stack whose slices K left the field of view when they were resampled in-plane
Blanked(stack, K) ==
    [ img  |-> [v \in Vox |-> IF v \in K THEN default_pixel_value ELSE stack.img[v]],
      mask |-> [v \in Vox |-> IF v \in K THEN default_pixel_value ELSE stack.mask[v]] ]

\* InPlaneRigidRegistration.get_resampled_planarly_aligned_stacks(): new Stack objects,
\* every slice kept, or the first slice of every stack moved out of view
InPlaneResults ==
    { [i \in StackIds |-> Blanked(stacks[i], K)] : K \in {{}, {0}} }

(***************************************************************************)
(* compute_first_estimate_of_HR_volume, lines 120 to 136: the in-plane      *)
(* branch, which builds a new HR volume object, or the raw stacks.          *)
(***************************************************************************)
compute_first_estimate_of_HR_volume ==
    /\ pc = "idle"
    /\ IF fe.flag_use_in_plane_rigid_registration
       THEN \E r \in InPlaneResults :
              /\ inplane' = r
              /\ heap' = (0 :> heap[0]) @@
                         (1 :> get_isotropically_resampled_stack(r[target_stack_number]))
              /\ hrRef' = 1
              /\ used' = [ in_plane |-> TRUE, grid |-> "inplane", register |-> "none",
                           strategy |-> "none" ]
       ELSE /\ UNCHANGED <<inplane, heap, hrRef>>
            /\ used' = [ in_plane |-> FALSE, grid |-> "none", register |-> "none",
                         strategy |-> "none" ]
    /\ pc' = IF fe.flag_register_stacks THEN "register" ELSE "strategy"
    /\ idx' = 0
    /\ registered' = {}
    /\ round' = [round EXCEPT !.done = FALSE, !.before = sliceT]
    /\ written' = -1
    /\ err' = "none"
    /\ UNCHANGED <<vr, vrSRR, vrSDA, fe, feSDA, stacks, sliceT, sdaVol, rigid, avgVars, gridVars>>

\* the stack list _rigidly_register_all_stacks_to_HR_volume and _run_averaging pick
WorkingStacks == IF fe.flag_use_in_plane_rigid_registration THEN inplane ELSE stacks
WorkingName   == IF fe.flag_use_in_plane_rigid_registration THEN "inplane" ELSE "original"

(***************************************************************************)
(* _rigidly_register_all_stacks_to_HR_volume, lines 210 to 215: one turn of *)
(* the loop stores the transform of stack idx.                              *)
(***************************************************************************)
rigidly_register_stack ==
    /\ pc = "register"
    /\ idx < NStacks
    /\ \E T \in RegOutcomes : rigid' = [rigid EXCEPT ![idx] = T]
    /\ idx' = idx + 1
    /\ registered' = registered \cup {idx}
    /\ used' = [used EXCEPT !.register = WorkingName]
    /\ UNCHANGED <<cfgVars, stacks, sliceT, inplane, heap, hrRef, sdaVol, pc,
                   round, written, avgVars, gridVars>>

(***************************************************************************)
(* _update_slice_transformations: every slice of every original stack is    *)
(* composed with its stack's rigid transform.                               *)
(***************************************************************************)
\* the slice's transform replaced by the stack's transform
Overwritten(slices, T) ==
    [i \in StackIds |-> [j \in Vox |-> T[i]]]

\* every slice composed with the transform of stack 0
ComposedWithFirst(slices, T) ==
    [i \in StackIds |-> [j \in Vox |-> get_composited_sitk_affine_transform(T[0], slices[i][j])]]

Propagated(slices, T) ==
    [i \in StackIds |-> [j \in Vox |-> get_composited_sitk_affine_transform(T[i], slices[i][j])]]

\* the round closed as soon as one transform is stored
update_slice_transformations_Early ==
    /\ pc = "register"
    /\ idx >= 1
    /\ sliceT' = Propagated(sliceT, rigid)
    /\ round' = [round EXCEPT !.done = TRUE,
                              !.n = IF @ < MaxRounds THEN @ + 1 ELSE @,
                              !.nonIdentity = @ \/ (\E i \in StackIds : rigid[i] # Identity)]
    /\ pc' = "strategy"
    /\ UNCHANGED <<cfgVars, stacks, inplane, heap, hrRef, sdaVol, rigid, idx,
                   registered, used, written, avgVars, gridVars>>

update_slice_transformations ==
    /\ pc = "register"
    /\ idx = NStacks
    /\ sliceT' = Propagated(sliceT, rigid)
    /\ round' = [round EXCEPT !.done = TRUE,
                              !.n = IF @ < MaxRounds THEN @ + 1 ELSE @,
                              !.nonIdentity = @ \/ (\E i \in StackIds : rigid[i] # Identity)]
    /\ pc' = "strategy"
    /\ UNCHANGED <<cfgVars, stacks, inplane, heap, hrRef, sdaVol, rigid, idx,
                   registered, used, written, avgVars, gridVars>>

(***************************************************************************)
(* _run_averaging: the working stacks resampled with their rigid transforms *)
(* and averaged into the object _HR_volume refers to.                       *)
(***************************************************************************)
ResampledStacks(stks, T) ==
    [i \in StackIds |-> [ img  |-> Resample(stks[i].img, T[i]),
                          mask |-> Resample(stks[i].mask, T[i]) ]]

run_averaging ==
    /\ pc = "strategy"
    /\ fe.recon_approach = "Average"
    /\ LET out == Averaging(ResampledStacks(WorkingStacks, rigid))
       IN  heap' = [heap EXCEPT ![hrRef] = [ img |-> out.img, mask |-> out.mask,
                                             by |-> "Average" ]]
    /\ written' = hrRef
    /\ used' = [used EXCEPT !.strategy = WorkingName]
    /\ pc' = "idle"
    /\ UNCHANGED <<cfgVars, stacks, sliceT, inplane, hrRef, sdaVol, rigid, idx,
                   registered, round, avgVars, gridVars>>

(***************************************************************************)
(* _run_averaging left through an exception.  The method has no handler, so *)
(* the exception reaches the caller of compute_first_estimate_of_HR_volume  *)
(* with whatever was assigned before it.  The places an exception may come  *)
(* from: a stack's resampling (lines 377 to 392), the accumulation (lines   *)
(* 395 to 413), the building of the new image before its assignment (lines  *)
(* 416, 417), the building of the new mask after the image was assigned     *)
(* in line 418 (lines 421, 422).                                            *)
(***************************************************************************)
FailurePoints == {"resample", "accumulate", "install_image", "install_mask"}

run_averaging_aborted(point) ==
    /\ pc = "strategy"
    /\ fe.recon_approach = "Average"
    /\ LET out == Averaging(ResampledStacks(WorkingStacks, rigid))
       IN  IF point = "install_mask"
           THEN /\ heap' = [heap EXCEPT ![hrRef] = [ img |-> out.img, mask |-> heap[hrRef].mask,
                                                     by |-> "aborted" ]]
                /\ written' = hrRef
           ELSE UNCHANGED <<heap, written>>
    /\ used' = [used EXCEPT !.strategy = WorkingName]
    /\ err' = "exception in _run_averaging"
    /\ pc' = "idle"
    /\ UNCHANGED <<vr, vrSRR, vrSDA, fe, feSDA, stacks, sliceT, inplane, hrRef, sdaVol,
                   rigid, idx, registered, round, avgVars, gridVars>>

(***************************************************************************)
(* _run_SDA: the collaborator built in __init__ from the stack manager and  *)
(* the HR volume of that time runs; it writes the intensity image of its HR *)
(* volume.  Its numerics are not part of these files: the image it leaves   *)
(* is taken to be a constant image.                                                  *)
(***************************************************************************)
run_SDA ==
    /\ pc = "strategy"
    /\ fe.recon_approach = "SDA"
    /\ heap' = [heap EXCEPT ![sdaVol] = [ img  |-> [v \in Vox |-> Frac(MaxVal, 1)],
                                          mask |-> heap[sdaVol].mask,
                                          by   |-> "SDA" ]]
    /\ written' = sdaVol
    /\ used' = [used EXCEPT !.strategy = "original"]
    /\ pc' = "idle"
    /\ UNCHANGED <<cfgVars, stacks, sliceT, inplane, hrRef, sdaVol, rigid, idx,
                   registered, round, avgVars, gridVars>>

(***************************************************************************)
(* The first-estimate pipeline.                                             *)
(***************************************************************************)
Init ==
    /\ VRInit
    /\ err = "none"
    /\ stacks \in [StackIds -> StackFamily]
    /\ FEInit
    /\ resampled = << >>
    /\ averaged = << >>
    /\ geometry = UnitGeometry
    /\ grid = IsotropicGrid(UnitGeometry)

Next ==
    \/ \E flag \in BOOLEAN : use_in_plane_registration_for_initial_volume_estimate(flag)
    \/ \E flag \in BOOLEAN : register_stacks_before_initial_volume_estimate(flag)
    \/ \E a \in {"SDA", "Average"} : FE_set_reconstruction_approach(a)
    \/ compute_first_estimate_of_HR_volume
    \/ rigidly_register_stack
    \/ update_slice_transformations
    \/ run_averaging
    \/ run_SDA

Spec == Init /\ [][Next]_vars

(***************************************************************************)
(* The configuration of both orchestrators: every setter, on one fixed set  *)
(* of stacks.                                                               *)
(***************************************************************************)
InitCfg ==
    /\ VRInit
    /\ err = "none"
    /\ stacks = [i \in StackIds |-> [ img |-> [v \in Vox |-> v + 1], mask |-> [v \in Vox |-> 1] ]]
    /\ FEInit
    /\ resampled = << >>
    /\ averaged = << >>
    /\ geometry = UnitGeometry
    /\ grid = IsotropicGrid(UnitGeometry)

NextCfg ==
    \/ \E a \in ReconNames : VR_set_reconstruction_approach(a)
    \/ \E x \in AlphaCutValues : VR_set_SRR_alpha_cut(x)
    \/ \E x \in AlphaValues : VR_set_SRR_alpha(x)
    \/ \E x \in IterValues : VR_set_SRR_iter_max(x)
    \/ \E a \in SRRApproaches : VR_set_SRR_approach(a)
    \/ \E a \in DTDTypes : VR_set_SRR_DTD_computation_type(a)
    \/ \E x \in SigmaValues : VR_set_SDA_sigma(x)
    \/ \E a \in SDAApproaches : VR_set_SDA_approach(a)
    \/ \E a \in ReconNames : FE_set_reconstruction_approach(a)
    \/ \E x \in SigmaValues : FE_set_SDA_sigma(x)
    \/ \E a \in SDAApproaches : FE_set_SDA_approach(a)

SpecCfg == InitCfg /\ [][NextCfg]_vars

\* every parameter of every strategy, as stored and as configured on the collaborators
VRParameters == << vr.SRR_alpha_cut, vr.SRR_alpha, vr.SRR_iter_max, vr.SRR_approach,
                   vr.SRR_DTD_comp_type, vr.SDA_sigma, vr.SDA_type, vr.SDA_approach,
                   vrSRR, vrSDA >>
FEParameters == << fe.SDA_sigma, fe.SDA_type, fe.SDA_approach, feSDA >>

(***************************************************************************)
(* C1.  A call of set_SRR_approach with a value outside {TK0, TK1}, or of   *)
(* set_reconstruction_approach (either orchestrator) with a name outside    *)
(* its allowed set, raises, and no stored field and no collaborator         *)
(* configuration differs after the call from before it.                     *)
(***************************************************************************)
C1_RejectedCallLeavesConfiguration ==
    [][ /\ \A a \in SRRApproaches \ {"TK0", "TK1"} :
             VR_set_SRR_approach(a) =>
                 err' # "none" /\ UNCHANGED <<vr, vrSRR, vrSDA, fe, feSDA>>
        /\ \A a \in ReconNames \ {"SRR", "SDA"} :
             VR_set_reconstruction_approach(a) =>
                 err' # "none" /\ UNCHANGED <<vr, vrSRR, vrSDA, fe, feSDA>>
        /\ \A a \in ReconNames \ {"SDA", "Average"} :
             (pc = "idle" /\ FE_set_reconstruction_approach(a)) =>
                 err' # "none" /\ UNCHANGED <<vr, vrSRR, vrSDA, fe, feSDA>>
      ]_vars

\* set_SRR_approach("TK2") was rejected after the order was set to TK1 and other
\* parameters were tuned
C1_Witness ==
    /\ err = "Error: SRR approach can only be either 'TK0' or 'TK1'"
    /\ vr.SRR_approach = "TK1" /\ vrSRR.regularization_type = "TK1"
    /\ vr.SRR_alpha # VRDefaultAlpha
    /\ vr.recon_approach = "SDA"

(***************************************************************************)
(* C2.  A call of set_reconstruction_approach, on either orchestrator,      *)
(* changes nothing but the active strategy: the SDA and SRR parameters, as  *)
(* stored and as configured on the collaborators, are the same after it.    *)
(***************************************************************************)
C2_StrategySwitchIsolation ==
    [][ /\ \A a \in ReconNames :
             VR_set_reconstruction_approach(a) =>
                 UNCHANGED <<VRParameters, FEParameters, fe.recon_approach>>
        /\ \A a \in ReconNames :
             (pc = "idle" /\ FE_set_reconstruction_approach(a)) =>
                 UNCHANGED <<VRParameters, FEParameters, vr.recon_approach>>
      ]_vars

\* both orchestrators switched away from their default strategy with tuned parameters
C2_Witness ==
    /\ vr.recon_approach = "SDA" /\ fe.recon_approach = "Average"
    /\ vr.SDA_sigma # VRDefaultSigma /\ vrSDA.approach = "Shepard-Deriche"
    /\ vr.SRR_alpha = 2 /\ vr.SRR_alpha_cut # VRDefaultAlphaCut
    /\ vr.SRR_approach = "TK1" /\ vr.SRR_DTD_comp_type = "FiniteDifference"
    /\ fe.SDA_sigma # FEDefaultSigma
    /\ err = "none"

(***************************************************************************)
(* C3.  No invalid parameter value is ever stored by an orchestrator or     *)
(* forwarded to a collaborator: sigma is positive, the regularization       *)
(* weight is not negative, the iteration cap is positive, and the           *)
(* enumerated parameters hold one of their names.                           *)
(***************************************************************************)
ValidSigma(x)   == x > 0
ValidAlpha(x)   == x >= 0
ValidIterMax(x) == x > 0

C3_NoInvalidValueStored ==
    /\ ValidSigma(vr.SDA_sigma) /\ ValidSigma(vrSDA.sigma)
    /\ ValidSigma(fe.SDA_sigma) /\ ValidSigma(feSDA.sigma)
    /\ ValidAlpha(vr.SRR_alpha) /\ ValidAlpha(vrSRR.alpha)
    /\ ValidIterMax(vr.SRR_iter_max) /\ ValidIterMax(vrSRR.iter_max)
    /\ vr.SRR_approach \in {"TK0", "TK1"} /\ vrSRR.regularization_type \in {"TK0", "TK1"}
    /\ vrSRR.DTD_computation_type \in {"Laplace", "FiniteDifference"}
    /\ vrSDA.approach \in {"Shepard-YVV", "Shepard-Deriche"}
    /\ feSDA.approach \in {"Shepard-YVV", "Shepard-Deriche"}

(***************************************************************************)
(* _run_averaging as a function of what the resampling returned: any        *)
(* resampled image and binary mask per stack, averaged once.                *)
(***************************************************************************)
ResampledInputs == [StackIds -> [ img : [Vox -> Val], mask : [Vox -> {0, 1}] ]]

InitAvg ==
    /\ VRInit
    /\ err = "none"
    /\ stacks = [i \in StackIds |-> [ img |-> [v \in Vox |-> v + 1], mask |-> [v \in Vox |-> 1] ]]
    /\ FEInit
    /\ resampled \in ResampledInputs
    /\ averaged = << >>
    /\ geometry = UnitGeometry
    /\ grid = IsotropicGrid(UnitGeometry)

average_resampled ==
    /\ averaged = << >>
    /\ averaged' = Averaging(resampled)
    /\ UNCHANGED <<cfgVars, pipeVars, resampled, gridVars>>

NextAvg == average_resampled

SpecAvg == InitAvg /\ [][NextAvg]_vars

HasAveraged == averaged # << >>

\* the stacks whose resampled intensity is not zero at voxel v
Contributors(v) == {i \in StackIds : resampled[i].img[v] # 0}

(***************************************************************************)
(* C4.  At every voxel the output mask is 1 iff some stack's resampled mask *)
(* is non-zero there; the output intensity is 0 where the output mask is 0  *)
(* and elsewhere the sum of the resampled intensities divided by            *)
(* max(number of stacks with non-zero resampled intensity, 1).              *)
(***************************************************************************)
C4_UnionAggregation ==
    HasAveraged =>
      \A v \in Vox :
        LET total == SumTo([i \in StackIds |-> resampled[i].img[v]], NStacks)
            count == IF Contributors(v) = {} THEN 1 ELSE Cardinality(Contributors(v))
            q     == averaged.img[v]
        IN  /\ averaged.mask[v] = (IF \E i \in StackIds : resampled[i].mask[v] # 0 THEN 1 ELSE 0)
            /\ q[2] > 0
            /\ IF averaged.mask[v] = 0 THEN q[1] = 0
               ELSE q[1] * count = q[2] * total

\* one stack contributes at a voxel where the other is zero, and the voxel lies in a mask
C4_Witness ==
    /\ HasAveraged
    /\ \E v \in Vox :
         /\ Cardinality(Contributors(v)) = 1
         /\ averaged.mask[v] = 1
         /\ averaged.img[v] = <<MaxVal, 1>>
    /\ \E v \in Vox : averaged.mask[v] = 0 /\ Contributors(v) # {}

(***************************************************************************)
(* C5 as stated: a voxel to which no stack contributes a non-zero intensity *)
(* has output intensity 0 and output mask 0.                                *)
(***************************************************************************)
C5_ZeroContributionIntensityAndMask ==
    HasAveraged =>
      \A v \in Vox :
        Contributors(v) = {} => averaged.img[v] = Zero /\ averaged.mask[v] = 0

(***************************************************************************)
(* C5 as amended: a voxel to which no stack contributes a non-zero          *)
(* intensity has output intensity 0; its output mask is 0 iff no stack's    *)
(* resampled mask is non-zero there.                                        *)
(***************************************************************************)
C5_ZeroContributionIntensity ==
    HasAveraged =>
      \A v \in Vox :
        Contributors(v) = {} =>
          /\ averaged.img[v] = Zero
          /\ averaged.mask[v] = 0 <=> (\A i \in StackIds : resampled[i].mask[v] = 0)

\* a voxel without contribution that lies in one stack's mask and not in the other's
C5_Witness ==
    /\ HasAveraged
    /\ \E v \in Vox :
         /\ Contributors(v) = {}
         /\ \E i, k \in StackIds : resampled[i].mask[v] = 1 /\ resampled[k].mask[v] = 0
         /\ averaged.mask[v] = 1

(***************************************************************************)
(* The HR volume get_HR_volume returns.                                     *)
(***************************************************************************)
HR_volume == heap[hrRef]

ZeroOutsideMask(volume) == \A v \in Vox : volume.mask[v] = 0 => volume.img[v] = Zero

(***************************************************************************)
(* C6 as stated: after construction, after the HR volume is rebuilt from an *)
(* in-plane-aligned stack and after any run of the Average strategy, the    *)
(* HR volume's intensity is zero wherever its mask is zero.                 *)
(***************************************************************************)
C6_IntensityZeroOutsideMask ==
    HR_volume.by \in {"grid", "Average"} => ZeroOutsideMask(HR_volume)

(***************************************************************************)
(* C6 as amended: once the Average strategy has written the HR volume, its  *)
(* intensity is zero wherever its mask is zero.                             *)
(***************************************************************************)
C6_AveragedVolumeZeroOutsideMask ==
    HR_volume.by = "Average" => ZeroOutsideMask(HR_volume)

\* the Average strategy ran on unregistered raw stacks that all have a non-zero
\* intensity at a voxel outside every mask
C6_Witness ==
    /\ HR_volume.by = "Average"
    /\ ~used.in_plane
    /\ \A i \in StackIds : rigid[i] = Identity
    /\ \E v \in Vox : /\ HR_volume.mask[v] = 0
                      /\ \A i \in StackIds : stacks[i].img[v] # 0

(***************************************************************************)
(* C7.  The HR volume object the strategies overwrite is the object         *)
(* get_HR_volume returns: the SDA collaborator holds the orchestrator's     *)
(* current HR volume, and the last strategy run wrote that object.          *)
(***************************************************************************)
C7_SingleCanonicalVolume ==
    /\ sdaVol = hrRef
    /\ written # -1 => written = hrRef

(***************************************************************************)
(* C8.  In a call with the in-plane flag enabled, every step that reads a   *)
(* stack list (the grid builder, the rigid registration, the active         *)
(* strategy) reads the in-plane-resampled stacks.                           *)
(***************************************************************************)
C8_DownstreamReadsInPlaneStacks ==
    used.in_plane =>
        /\ used.grid = "inplane"
        /\ used.register \in {"none", "inplane"}
        /\ used.strategy \in {"none", "inplane"}

(***************************************************************************)
(* C9.  After an alignment round every slice j of every original stack i    *)
(* has the transform compose(T_i, its transform before the round), T_i the  *)
(* rigid transform stored for stack i in that round.                        *)
(***************************************************************************)
C9_SliceTransformInvariant ==
    round.done =>
      \A i \in StackIds : \A j \in Vox :
        sliceT[i][j] = get_composited_sitk_affine_transform(rigid[i], round.before[i][j])

\* a second round ended in which the stacks got different transforms, none the identity
C9_Witness ==
    /\ round.done /\ round.n >= 2
    /\ round.before # InitialSliceTransforms
    /\ rigid[0] # rigid[1]
    /\ rigid[0] # Identity

(***************************************************************************)
(* C10.  A round in which every stack's rigid transform is the identity     *)
(* leaves every slice transform as it was before the round, and as long as  *)
(* every round stored identities only, the slice transforms are the initial *)
(* ones, however many rounds ran.                                           *)
(***************************************************************************)
C10_IdentityLeavesSliceTransforms ==
    /\ (round.done /\ \A i \in StackIds : rigid[i] = Identity) => sliceT = round.before
    /\ ~round.nonIdentity => sliceT = InitialSliceTransforms

\* two rounds ran, both with identities only
C10_Witness ==
    /\ round.done /\ round.n >= 2
    /\ ~round.nonIdentity
    /\ \A i \in StackIds : rigid[i] = Identity

(***************************************************************************)
(* C11.  In a call with rigid registration enabled, the strategy starts     *)
(* only after the transform of every stack 0..N-1 was stored and the round  *)
(* was closed; while a stack's transform is pending, the strategy has read  *)
(* no stack and written no HR volume in this call.                          *)
(***************************************************************************)
C11_AlignmentBeforeAggregation ==
    /\ (pc = "strategy" /\ fe.flag_register_stacks) =>
           registered = StackIds /\ idx = NStacks /\ round.done
    /\ (used.strategy # "none" /\ used.register # "none") =>
           registered = StackIds /\ round.done
    /\ pc = "register" => used.strategy = "none" /\ written = -1

\* the Average strategy has run after a round that stored a turned-over last stack
C11_Witness ==
    /\ pc = "idle" /\ used.register # "none" /\ used.strategy # "none"
    /\ registered = StackIds
    /\ rigid[NStacks - 1] = Flip
    /\ written = hrRef /\ HR_volume.by = "Average"

(***************************************************************************)
(* The Average strategy with the exceptions that may end it: raw stacks,    *)
(* with or without a registration round before the strategy.                *)
(***************************************************************************)
NextFail ==
    \/ \E flag \in BOOLEAN : register_stacks_before_initial_volume_estimate(flag)
    \/ FE_set_reconstruction_approach("Average")
    \/ compute_first_estimate_of_HR_volume
    \/ rigidly_register_stack
    \/ update_slice_transformations
    \/ run_averaging
    \/ \E point \in FailurePoints : run_averaging_aborted(point)

SpecFail == Init /\ [][NextFail]_vars

(***************************************************************************)
(* C12.  When an exception ends the Average strategy, wherever it is        *)
(* raised, the HR volume the caller finds afterwards has the intensity      *)
(* image and the mask image it had before the strategy started.             *)
(***************************************************************************)
C12_AtomicVolumeUpdateOnFailure ==
    [][ \A point \in FailurePoints :
          run_averaging_aborted(point) =>
              /\ heap'[hrRef'].img = heap[hrRef].img
              /\ heap'[hrRef'].mask = heap[hrRef].mask
      ]_vars

(***************************************************************************)
(* What the Average strategy leaves when stack i of stks is resampled with  *)
(* T[i], and the table of transforms the constructor stores.                *)
(***************************************************************************)
AverageUnder(stks, T) ==
    Averaging([i \in StackIds |-> [ img  |-> Resample(stks[i].img, T[i]),
                                    mask |-> Resample(stks[i].mask, T[i]) ]])

IdentityTable == [i \in StackIds |-> Identity]

\* a step in which the strategy of a call with the register-stacks flag false runs
UnregisteredStrategyStep == (run_averaging \/ run_SDA) /\ ~fe.flag_register_stacks

(***************************************************************************)
(* C13.  In a call with the register-stacks flag false, the Average         *)
(* strategy resamples every stack with the identity transform and no slice  *)
(* transform is changed by the call, whatever calls came before.            *)
(***************************************************************************)
C13_UnregisteredRunResamplesWithIdentity ==
    [][ /\ UnregisteredStrategyStep => sliceT' = sliceT /\ sliceT = round.before
        /\ (run_averaging /\ ~fe.flag_register_stacks) =>
              /\ heap'[hrRef].img = AverageUnder(WorkingStacks, IdentityTable).img
              /\ heap'[hrRef].mask = AverageUnder(WorkingStacks, IdentityTable).mask
      ]_vars

(***************************************************************************)
(* The alignment round with its registrations taken in any order.  Line 211 *)
(* hands the registration stack i and the HR volume and stores what comes   *)
(* back in slot i.  The registration is a function of its two images; it    *)
(* is an optimizer of the image library, and its stand-in here keeps what   *)
(* matters to the round: started from the identity, it returns the          *)
(* transform of RegOutcomes under which the stack agrees with the volume at *)
(* more voxels.  In Spec the same call returns any transform of             *)
(* RegOutcomes, which covers every such function.                           *)
(***************************************************************************)
Agreement(fixed_3D, moving_3D, T) ==
    Cardinality({v \in Vox : Frac(Resample(fixed_3D.img, T)[v], 1) = moving_3D.img[v]})

get_rigid_registration_transform_3D_sitk(fixed_3D, moving_3D) ==
    IF Agreement(fixed_3D, moving_3D, Flip) > Agreement(fixed_3D, moving_3D, Identity)
    THEN Flip ELSE Identity

\* the one transform object all slots share since the constructor is changed in place
register_stack_SharedTransform(i) ==
    /\ pc = "register"
    /\ i \notin registered
    /\ rigid' = [k \in StackIds |->
                    get_rigid_registration_transform_3D_sitk(WorkingStacks[i], heap[hrRef])]
    /\ idx' = idx + 1
    /\ registered' = registered \cup {i}
    /\ used' = [used EXCEPT !.register = WorkingName]
    /\ UNCHANGED <<cfgVars, stacks, sliceT, inplane, heap, hrRef, sdaVol, pc,
                   round, written, avgVars, gridVars>>

\* line 211 for stack i
register_stack(i) ==
    /\ pc = "register"
    /\ i \notin registered
    /\ rigid' = [rigid EXCEPT
                    ![i] = get_rigid_registration_transform_3D_sitk(WorkingStacks[i], heap[hrRef])]
    /\ idx' = idx + 1
    /\ registered' = registered \cup {i}
    /\ used' = [used EXCEPT !.register = WorkingName]
    /\ UNCHANGED <<cfgVars, stacks, sliceT, inplane, heap, hrRef, sdaVol, pc,
                   round, written, avgVars, gridVars>>

StackFamilyPar == [ img : [Vox -> 1 .. MaxVal], mask : { [v \in Vox |-> 1] } ]

InitPar ==
    /\ VRInit
    /\ err = "none"
    /\ stacks \in [StackIds -> StackFamilyPar]
    /\ FEInit
    /\ resampled = << >>
    /\ averaged = << >>
    /\ geometry = UnitGeometry
    /\ grid = IsotropicGrid(UnitGeometry)

NextPar ==
    \/ \E flag \in BOOLEAN : register_stacks_before_initial_volume_estimate(flag)
    \/ FE_set_reconstruction_approach("Average")
    \/ compute_first_estimate_of_HR_volume
    \/ \E i \in StackIds : register_stack(i)
    \/ update_slice_transformations
    \/ run_averaging

SpecPar == InitPar /\ [][NextPar]_vars

(***************************************************************************)
(* C14.  Within an alignment round the HR volume is not written; a step     *)
(* that stores the transform of stack i writes slot i, no other slot, and   *)
(* slot i once in the round; and when the round closes, whatever the order  *)
(* the stacks were taken in, slot i holds what the registration makes of    *)
(* stack i and the HR volume of the start of the round.                     *)
(***************************************************************************)
C14_PerStackAlignmentIndependence ==
    [][ /\ pc = "register" => heap' = heap /\ hrRef' = hrRef
        /\ \A i \in StackIds :
              i \in registered' \ registered =>
                  /\ pc = "register" /\ registered' = registered \cup {i}
                  /\ \A k \in StackIds \ {i} : rigid'[k] = rigid[k]
        /\ rigid' # rigid => registered' # registered /\ registered \subseteq registered'
        /\ (pc = "register" /\ pc' = "strategy") =>
              /\ registered = StackIds
              /\ \A i \in StackIds :
                    rigid[i] = get_rigid_registration_transform_3D_sitk(stacks[i], heap[hrRef])
      ]_vars

\* in a round on an averaged HR volume the last stack was taken first and found
\* turned over, while the first stack is still pending
C14_Witness ==
    /\ pc = "register" /\ registered = {NStacks - 1}
    /\ round.n >= 1 /\ HR_volume.by = "Average"
    /\ rigid[NStacks - 1] = Flip
    /\ rigid[0] = Identity

(***************************************************************************)
(* The grid builder as a function of the target stack's geometry: any       *)
(* spacing and size within the bounds, the mask image of the stack with an  *)
(* origin and a direction of its own.                                       *)
(***************************************************************************)
Geometries ==
    [ spacing : [1 .. 3 -> 1 .. MaxSpacing], size : [1 .. 3 -> 1 .. MaxSize],
      origin : {"o1", "o2"}, direction : {"d1"},
      mask_origin : {"o1", "o2"}, mask_direction : {"d1", "d2"} ]

InitGrid ==
    /\ VRInit
    /\ err = "none"
    /\ stacks = [i \in StackIds |-> [ img |-> [v \in Vox |-> v + 1], mask |-> [v \in Vox |-> 1] ]]
    /\ FEInit
    /\ resampled = << >>
    /\ averaged = << >>
    /\ geometry \in Geometries
    /\ grid = << >>

build_isotropic_grid ==
    /\ grid = << >>
    /\ grid' = IsotropicGrid(geometry)
    /\ UNCHANGED <<cfgVars, pipeVars, avgVars, geometry>>

NextGrid == build_isotropic_grid

SpecGrid == InitGrid /\ [][NextGrid]_vars

(***************************************************************************)
(* C15.  For a stack of spacing (sx, sy, sz) and size (X, Y, Z) the grid of *)
(* the HR volume has spacing (sx, sy, sx) and size (X, Y, Zout), Zout the   *)
(* integer nearest to sz / sx * Z, and the mask image has the size, the     *)
(* spacing, the origin and the direction of the intensity image.            *)
(***************************************************************************)
C15_IsotropicGrid ==
    grid # << >> =>
      LET sx == geometry.spacing[1]
          sz == geometry.spacing[3]
          Z  == geometry.size[3]
          Zout == grid.image.size[3]
      IN  /\ grid.image.spacing = <<sx, geometry.spacing[2], sx>>
          /\ grid.image.size[1] = geometry.size[1]
          /\ grid.image.size[2] = geometry.size[2]
          /\ Zout \in Nat
          /\ 2 * Abs(Zout * sx - sz * Z) <= sx
          /\ grid.mask = grid.image
          /\ grid.image.origin = geometry.origin
          /\ grid.image.direction = geometry.direction

\* an anisotropic stack whose scaled size falls in the upper half between two
\* integers, and whose mask image lies elsewhere than its intensity image
C15_Witness ==
    /\ grid # << >>
    /\ geometry.spacing[3] > geometry.spacing[1]
    /\ geometry.spacing[2] # geometry.spacing[1]
    /\ 2 * ((geometry.spacing[3] * geometry.size[3]) % geometry.spacing[1]) > geometry.spacing[1]
    /\ grid.image.size[3] > geometry.size[3]
    /\ geometry.mask_origin # geometry.origin
    /\ geometry.mask_direction # geometry.direction

(***************************************************************************)
(* The keys of VolumeReconstruction._run_reconstruction, the table          *)
(* run_reconstruction dispatches on.                                        *)
(***************************************************************************)
DispatchKeys == {"SDA", "SRR"}

(***************************************************************************)
(* C16.  After construction and after any sequence of setter calls,         *)
(* accepted or rejected, every parameter VolumeReconstruction holds equals  *)
(* the value configured on the solver collaborator (alpha_cut, alpha,       *)
(* iter_max, regularization order, D'D variant; SDA sigma and kernel        *)
(* variant), and the active strategy is a key of the dispatch table.        *)
(***************************************************************************)
C16_ConfigurationMirror ==
    /\ vr.SRR_alpha_cut = vrSRR.alpha_cut
    /\ vr.SRR_alpha = vrSRR.alpha
    /\ vr.SRR_iter_max = vrSRR.iter_max
    /\ vr.SRR_approach = vrSRR.regularization_type
    /\ vr.SRR_DTD_comp_type = vrSRR.DTD_computation_type
    /\ vr.SDA_sigma = vrSDA.sigma
    /\ vr.SDA_type = vrSDA.approach
    /\ vr.recon_approach \in DispatchKeys

====
